---- MODULE Spec2Model ----
(***************************************************************************)
(* Model of goplot: the data-sample pipeline (parseLine, the ingest loop   *)
(* and linearRegression of dataSampleProcess), the HTTP handler            *)
(* dataSampleServer and the demo Point resource served on /point.          *)
(*                                                                         *)
(* Strings are sequences of one-character strings.  A float64 is modelled  *)
(* by the exact value it holds: a normalised rational, or one of the IEEE  *)
(* specials NaN, +Inf, -Inf.  The result of math.Sqrt on a rational that   *)
(* is not a perfect square is kept symbolically (kind "sqrt").  The sign   *)
(* of zero is not modelled: every zero the code divides by is a positive   *)
(* zero (a difference of equal values, a sum of squares or float64(0)).    *)
(***************************************************************************)
EXTENDS Integers, Sequences, FiniteSets, TLC

VARIABLES
    coords,     \* parseLine: the argument
    pres,       \* parseLine: what it returned (NotCalled before the call)
    rseries,    \* linearRegression: the argument
    rres,       \* linearRegression: what it returned (NotCalled before)
    req,        \* handler -> the HTTP request it serves
    loc,        \* handler -> the locals of its goroutine
    resp,       \* handler -> the response written so far
    demoPoint,  \* the Point registered on /point (shared by all handlers)
    stdout      \* what fmt.Println wrote

vars == <<coords, pres, rseries, rres, req, loc, resp, demoPoint, stdout>>

NotCalled == [called |-> FALSE]

(***************************************************************************)
(* Bounds of the model.                                                    *)
(***************************************************************************)
MaxLineLen == 5     \* longest line handed to parseLine
MaxPoints == 3      \* longest series handed to linearRegression
MaxCoord == 2       \* coordinates of those series are in 0..MaxCoord
MaxLines == 4       \* most lines in one submission
NReq == 2           \* concurrent requests

(***************************************************************************)
(* float64 values.                                                         *)
(***************************************************************************)
RECURSIVE GCD(_, _)
GCD(a, b) == IF b = 0 THEN a ELSE GCD(b, a % b)

Abs(n) == IF n < 0 THEN -n ELSE n

\* the rational n/d (d # 0), normalised
Fin(n, d) ==
    LET g == GCD(Abs(n), Abs(d))
        s == IF d < 0 THEN -1 ELSE 1
    IN  [k |-> "fin", n |-> (s * n) \div g, d |-> (s * d) \div g]

Num(i) == Fin(i, 1)
NaN == [k |-> "nan", n |-> 0, d |-> 1]
Inf(s) == [k |-> "inf", n |-> s, d |-> 1]
Sgn(a) == IF a.n > 0 THEN 1 ELSE IF a.n < 0 THEN -1 ELSE 0
IsFinite(a) == a.k \in {"fin", "sqrt"}

FNeg(a) == IF a.k = "nan" THEN NaN ELSE [a EXCEPT !.n = -a.n]

FAdd(a, b) ==
    IF a.k = "nan" \/ b.k = "nan" THEN NaN
    ELSE IF a.k = "inf" /\ b.k = "inf" THEN (IF a.n = b.n THEN a ELSE NaN)
    ELSE IF a.k = "inf" THEN a
    ELSE IF b.k = "inf" THEN b
    ELSE Fin(a.n * b.d + b.n * a.d, a.d * b.d)

FSub(a, b) == FAdd(a, FNeg(b))

FMul(a, b) ==
    IF a.k = "nan" \/ b.k = "nan" THEN NaN
    ELSE IF a.k = "inf" \/ b.k = "inf"
         THEN (IF Sgn(a) * Sgn(b) = 0 THEN NaN ELSE Inf(Sgn(a) * Sgn(b)))
    ELSE Fin(a.n * b.n, a.d * b.d)

\* IEEE division: x/0 is +-Inf for x # 0 and NaN for x = 0
FDiv(a, b) ==
    IF a.k = "nan" \/ b.k = "nan" THEN NaN
    ELSE IF a.k = "inf"
         THEN (IF b.k = "inf" THEN NaN
               ELSE Inf(IF Sgn(b) < 0 THEN -a.n ELSE a.n))
    ELSE IF b.k = "inf" THEN Num(0)
    ELSE IF b.n = 0 THEN (IF a.n = 0 THEN NaN ELSE Inf(Sgn(a)))
    ELSE Fin(a.n * b.d, a.d * b.n)

\* the integer part of the square root of n >= 0, by bisection of lo..hi
RECURSIVE ISqrt(_, _, _)
ISqrt(n, lo, hi) ==
    IF lo >= hi THEN lo
    ELSE LET mid == (lo + hi + 1) \div 2
         IN  IF mid <= n \div mid THEN ISqrt(n, mid, hi) ELSE ISqrt(n, lo, mid - 1)

Root(n) == ISqrt(n, 0, n)
IsSquare(n) == Root(n) * Root(n) = n

\* math.Sqrt
FSqrt(a) ==
    IF a.k = "nan" THEN NaN
    ELSE IF a.k = "inf" THEN (IF a.n > 0 THEN a ELSE NaN)
    ELSE IF a.n < 0 THEN NaN
    ELSE IF IsSquare(a.n) /\ IsSquare(a.d) THEN Fin(Root(a.n), Root(a.d))
    ELSE [k |-> "sqrt", n |-> a.n, d |-> a.d]

(***************************************************************************)
(* Strings.                                                                *)
(***************************************************************************)
Space == {" ", "\t", "\r", "\n"}
Digits == <<"0", "1", "2", "3", "4", "5", "6", "7", "8", "9">>
IsDigit(c) == \E i \in 1..Len(Digits) : Digits[i] = c
DigitVal(c) == (CHOOSE i \in 1..Len(Digits) : Digits[i] = c) - 1

\* the line used as it is, not trimmed
NoTrim(s) == s

\* strings.TrimSpace
TrimSpace(s) ==
    LET keep == {i \in 1..Len(s) : s[i] \notin Space}
    IN  IF keep = {} THEN <<>>
        ELSE LET lo == CHOOSE i \in keep : \A j \in keep : i <= j
                 hi == CHOOSE i \in keep : \A j \in keep : j <= i
             IN  SubSeq(s, lo, hi)

\* strings.SplitN(s, sep, n) for a one-character sep and n > 0: at most n
\* substrings, the last one the unsplit remainder
RECURSIVE SplitN(_, _, _)
SplitN(s, sep, n) ==
    LET at == {i \in 1..Len(s) : s[i] = sep}
    IN  IF n = 1 \/ at = {} THEN <<s>>
        ELSE LET i == CHOOSE i \in at : \A j \in at : i <= j
             IN  <<SubSeq(s, 1, i - 1)>> \o SplitN(SubSeq(s, i + 1, Len(s)), sep, n - 1)

RECURSIVE Pow10(_)
Pow10(e) == IF e = 0 THEN 1 ELSE 10 * Pow10(e - 1)

RECURSIVE Mantissa(_)
Mantissa(ds) ==
    IF ds = <<>> THEN 0
    ELSE 10 * Mantissa(SubSeq(ds, 1, Len(ds) - 1)) + DigitVal(ds[Len(ds)])

\* strconv.ParseFloat(s, 64) on decimal text: an optional sign, digits with
\* at most one point, at least one digit.  On a syntax error Go returns the
\* value 0 with the error.  (Exponents, hexadecimal floats, "inf", "nan" and
\* digit-separating underscores are outside the alphabet of the model.)
ParseFloat(s) ==
    LET signed == Len(s) > 0 /\ s[1] \in {"+", "-"}
        body   == IF signed THEN Tail(s) ELSE s
        dots   == {i \in 1..Len(body) : body[i] = "."}
        ds     == SelectSeq(body, IsDigit)
        ok     == /\ \A i \in 1..Len(body) : IsDigit(body[i]) \/ body[i] = "."
                  /\ Cardinality(dots) <= 1
                  /\ Len(ds) > 0
        frac   == IF dots = {} THEN 0 ELSE Len(body) - (CHOOSE i \in dots : TRUE)
        mag    == Fin(Mantissa(ds), Pow10(frac))
    IN  IF ok
        THEN [v |-> IF signed /\ s[1] = "-" THEN FNeg(mag) ELSE mag, err |-> "nil"]
        ELSE [v |-> Num(0), err |-> "syntax"]

(***************************************************************************)
(* parseLine.                                                              *)
(***************************************************************************)
ZeroPoint == [X |-> Num(0), Y |-> Num(0)]

\* the limit of the split of a line into fields
FieldLimit == 3

parseLine(line) ==
    IF Len(line) > 0
    THEN LET coordsAr == SplitN(TrimSpace(line), ",", FieldLimit)
         IN  IF Len(coordsAr) > 1
             THEN LET x == ParseFloat(coordsAr[1])
                  IN  IF x.err = "nil"
                      THEN LET y == ParseFloat(coordsAr[2])
                           IN  [p |-> [X |-> x.v, Y |-> y.v], err |-> y.err]
                      ELSE [p |-> [X |-> x.v, Y |-> Num(0)], err |-> x.err]
             ELSE [p |-> ZeroPoint, err |-> "nil"]
    ELSE [p |-> ZeroPoint, err |-> "parseLine: No data"]

(***************************************************************************)
(* SpecParse: parseLine applied to every line over LineChars of at most    *)
(* MaxLineLen characters.                                                  *)
(***************************************************************************)
LineChars == {"1", "2", ".", "-", ",", " ", "b"}
Lines == UNION {[1..n -> LineChars] : n \in 0..MaxLineLen}

NoHandlers ==
    /\ req = <<>>
    /\ loc = <<>>
    /\ resp = <<>>
    /\ demoPoint = ZeroPoint
    /\ stdout = <<>>

InitParse ==
    /\ coords \in Lines
    /\ pres = NotCalled
    /\ rseries = <<>>
    /\ rres = NotCalled
    /\ NoHandlers

ParseLineCall ==
    /\ ~pres.called
    /\ pres' = [called |-> TRUE, p |-> parseLine(coords).p, err |-> parseLine(coords).err]
    /\ UNCHANGED <<coords, rseries, rres, req, loc, resp, demoPoint, stdout>>

NextParse == ParseLineCall

SpecParse == InitParse /\ [][NextParse]_vars

\* the number of comma-separated fields of the trimmed text of a line
FieldCount(line) ==
    LET t == TrimSpace(line)
    IN  1 + Cardinality({i \in 1..Len(t) : t[i] = ","})

\* C2: parseLine returns a non-nil error for every non-empty line whose
\* trimmed text has fewer than 2 comma-separated fields (a line without a
\* comma, a whitespace-only line), and only the zero-length line fails with
\* the "No data" (EmptyLine) error.
C2_MalformedLineFails ==
    pres.called =>
        /\ (Len(coords) > 0 /\ FieldCount(coords) < 2 => pres.err # "nil")
        /\ (pres.err = "parseLine: No data" <=> coords = <<>>)

\* the value of decimal text, read left to right: digits before the point,
\* then digits after it, each a tenth of the one before
RECURSIVE DecValue(_, _, _, _)
DecValue(t, i, acc, scale) ==
    IF i > Len(t) THEN acc
    ELSE IF t[i] = "." THEN DecValue(t, i + 1, acc, 10)
    ELSE IF scale = 1 THEN DecValue(t, i + 1, FAdd(FMul(acc, Num(10)), Num(DigitVal(t[i]))), 1)
    ELSE DecValue(t, i + 1, FAdd(acc, Fin(DigitVal(t[i]), scale)), scale * 10)

\* t is the text of a finite real number: [sign] digits [. digits]
IsNumeral(t) ==
    LET b == IF Len(t) > 0 /\ t[1] \in {"+", "-"} THEN Tail(t) ELSE t
    IN  /\ \E i \in 1..Len(b) : IsDigit(b[i])
        /\ \A i \in 1..Len(b) : IsDigit(b[i]) \/ b[i] = "."
        /\ \A i, j \in 1..Len(b) : b[i] = "." /\ b[j] = "." => i = j

NumeralValue(t) ==
    IF t[1] = "-" THEN FNeg(DecValue(Tail(t), 1, Num(0), 1))
    ELSE IF t[1] = "+" THEN DecValue(Tail(t), 1, Num(0), 1)
    ELSE DecValue(t, 1, Num(0), 1)

\* line = whitespace x "," y [ "," rest ] whitespace, with x = line[a..c-1],
\* y = line[c+1..e] and the trailing whitespace starting after position z
IsPairLine(line, a, c, e, z) ==
    /\ a <= c /\ c <= e /\ e <= z /\ z <= Len(line)
    /\ \A i \in 1..(a - 1) : line[i] \in Space
    /\ \A i \in (z + 1)..Len(line) : line[i] \in Space
    /\ line[c] = ","
    /\ e = z \/ line[e + 1] = ","
    /\ IsNumeral(SubSeq(line, a, c - 1))
    /\ IsNumeral(SubSeq(line, c + 1, e))

\* C5: for every line "x,y" or "x,y,rest" with x and y numerals and only
\* surrounding whitespace, parseLine returns a nil error and the pair (x, y).
C5_ValidLineParses ==
    pres.called =>
        \A a, c, e, z \in 1..Len(coords) :
            IsPairLine(coords, a, c, e, z) =>
                /\ pres.err = "nil"
                /\ pres.p = [X |-> NumeralValue(SubSeq(coords, a, c - 1)),
                             Y |-> NumeralValue(SubSeq(coords, c + 1, e))]

\* a line with a third field, parsed to its first two
C5_Witness ==
    /\ pres.called
    /\ coords = <<"1", ",", "2", ",", "b">>
    /\ pres.err = "nil"
    /\ pres.p = [X |-> Num(1), Y |-> Num(2)]

(***************************************************************************)
(* linearRegression.                                                       *)
(***************************************************************************)
\* the first loop: the sums of x, y, x*y and x*x over series[ix..]
RECURSIVE SumLoop(_, _, _)
SumLoop(series, ix, acc) ==
    IF ix > Len(series) THEN acc
    ELSE LET x == series[ix].X
             y == series[ix].Y
         IN  SumLoop(series, ix + 1,
                     [sumx  |-> FAdd(acc.sumx, x),
                      sumy  |-> FAdd(acc.sumy, y),
                      sumxy |-> FAdd(acc.sumxy, FMul(x, y)),
                      sumx2 |-> FAdd(acc.sumx2, FMul(x, x))])

\* the fitted value with the intercept added
FittedPlus(slope, x, intercept) == FAdd(FMul(slope, x), intercept)

\* the fitted value the residual is taken from
Fitted(slope, x, intercept) == FSub(FMul(slope, x), intercept)

\* the second loop: st and sr over series[ix..]
RECURSIVE ResidualLoop(_, _, _, _, _, _)
ResidualLoop(series, ix, ymean, slope, intercept, acc) ==
    IF ix > Len(series) THEN acc
    ELSE LET x == series[ix].X
             y == series[ix].Y
             r == FSub(y, Fitted(slope, x, intercept))
         IN  ResidualLoop(series, ix + 1, ymean, slope, intercept,
                          [st |-> FAdd(acc.st, FMul(FSub(y, ymean), FSub(y, ymean))),
                           sr |-> FAdd(acc.sr, FMul(r, r))])

\* the function returns its four values whatever the series is: it has no
\* error result and a float64 division does not panic
linearRegression(series) ==
    LET flen      == Num(Len(series))
        s         == SumLoop(series, 1, [sumx |-> Num(0), sumy |-> Num(0),
                                         sumxy |-> Num(0), sumx2 |-> Num(0)])
        xmean     == FDiv(s.sumx, flen)
        ymean     == FDiv(s.sumy, flen)
        slope     == FDiv(FSub(FMul(flen, s.sumxy), FMul(s.sumx, s.sumy)),
                          FSub(FMul(flen, s.sumx2), FMul(s.sumx, s.sumx)))
        intercept == FSub(ymean, FMul(slope, xmean))
        t         == ResidualLoop(series, 1, ymean, slope, intercept,
                                  [st |-> Num(0), sr |-> Num(0)])
    IN  [outcome     |-> "return",
         slope       |-> slope,
         intercept   |-> intercept,
         stdError    |-> FSqrt(FDiv(t.sr, FSub(flen, Num(2)))),
         correlation |-> FSqrt(FDiv(FSub(t.st, t.sr), t.st))]

(***************************************************************************)
(* SpecRegress: linearRegression applied to every series of at most        *)
(* MaxPoints points with coordinates in 0..MaxCoord.                       *)
(***************************************************************************)
Points == {[X |-> Num(x), Y |-> Num(y)] : x, y \in 0..MaxCoord}
SeriesSet == UNION {[1..n -> Points] : n \in 0..MaxPoints}

InitRegress ==
    /\ rseries \in SeriesSet
    /\ rres = NotCalled
    /\ coords = <<>>
    /\ pres = NotCalled
    /\ NoHandlers

LinearRegressionCall ==
    /\ ~rres.called
    /\ rres' = [called |-> TRUE, r |-> linearRegression(rseries)]
    /\ UNCHANGED <<coords, pres, rseries, req, loc, resp, demoPoint, stdout>>

NextRegress == LinearRegressionCall

SpecRegress == InitRegress /\ [][NextRegress]_vars

RECURSIVE SumSeq(_)
SumSeq(fs) == IF fs = <<>> THEN Num(0) ELSE FAdd(fs[1], SumSeq(Tail(fs)))

Sq(a) == FMul(a, a)
Sx(ser) == SumSeq([i \in 1..Len(ser) |-> ser[i].X])
Sy(ser) == SumSeq([i \in 1..Len(ser) |-> ser[i].Y])
Sxy(ser) == SumSeq([i \in 1..Len(ser) |-> FMul(ser[i].X, ser[i].Y)])
Sx2(ser) == SumSeq([i \in 1..Len(ser) |-> Sq(ser[i].X)])
SlopeDenominator(ser) == FSub(FMul(Num(Len(ser)), Sx2(ser)), Sq(Sx(ser)))
MeanX(ser) == FDiv(Sx(ser), Num(Len(ser)))
MeanY(ser) == FDiv(Sy(ser), Num(Len(ser)))
St(ser) ==
    LET my == MeanY(ser)
    IN  SumSeq([i \in 1..Len(ser) |-> Sq(FSub(ser[i].Y, my))])

\* a series the regression is not defined on
Degenerate(ser) ==
    \/ Len(ser) < 2
    \/ SlopeDenominator(ser) = Num(0)
    \/ St(ser) = Num(0)

\* C3: linearRegression signals a degenerate series (length 0 or 1, all x
\* identical, all y identical) instead of returning values, and never
\* returns a NaN or infinite slope, intercept, standard error or correlation.
C3_DegenerateSignalled ==
    rres.called =>
        /\ (Degenerate(rseries) => rres.r.outcome # "return")
        /\ (rres.r.outcome = "return" =>
                /\ IsFinite(rres.r.slope)
                /\ IsFinite(rres.r.intercept)
                /\ IsFinite(rres.r.stdError)
                /\ IsFinite(rres.r.correlation))

\* the line through two points of the series with different x
LineOf(ser) ==
    LET ij == CHOOSE ij \in (1..Len(ser)) \X (1..Len(ser)) :
                  ser[ij[1]].X # ser[ij[2]].X
        p  == ser[ij[1]]
        q  == ser[ij[2]]
        a  == FDiv(FSub(q.Y, p.Y), FSub(q.X, p.X))
    IN  [a |-> a, b |-> FSub(p.Y, FMul(a, p.X))]

\* all points lie on one line y = a*x + b with a # 0
PerfectFit(ser) ==
    /\ Len(ser) >= 3
    /\ \E i, j \in 1..Len(ser) : ser[i].X # ser[j].X
    /\ LineOf(ser).a # Num(0)
    /\ \A i \in 1..Len(ser) :
           ser[i].Y = FAdd(FMul(LineOf(ser).a, ser[i].X), LineOf(ser).b)

\* C4: for a series of at least 3 points, not all x identical, that lies
\* on one line y = a*x + b with a # 0, linearRegression returns slope a,
\* intercept b, standard error 0 and correlation 1.
C4_PerfectFit ==
    rres.called /\ PerfectFit(rseries) =>
        /\ rres.r.slope = LineOf(rseries).a
        /\ rres.r.intercept = LineOf(rseries).b
        /\ rres.r.stdError = Num(0)
        /\ rres.r.correlation = Num(1)

ClosedSlope(ser) ==
    FDiv(FSub(FMul(Num(Len(ser)), Sxy(ser)), FMul(Sx(ser), Sy(ser))),
         SlopeDenominator(ser))
ClosedIntercept(ser) == FSub(MeanY(ser), FMul(ClosedSlope(ser), MeanX(ser)))
Sr(ser) ==
    LET sl == ClosedSlope(ser)
        ic == ClosedIntercept(ser)
    IN  SumSeq([i \in 1..Len(ser) |-> Sq(FSub(ser[i].Y, FSub(FMul(sl, ser[i].X), ic)))])

\* C10: for a series of at least 3 points with non-zero denominators the
\* result is the closed form: slope = (n*Sxy - Sx*Sy)/(n*Sx2 - Sx*Sx),
\* intercept = mean(y) - slope*mean(x), standardError = sqrt(Sr/(n-2)) and
\* correlation = sqrt((St-Sr)/St), where St sums (y - mean(y))^2 and Sr
\* sums (y - (slope*x - intercept))^2.
C10_ClosedForm ==
    rres.called /\ Len(rseries) >= 3 /\ ~Degenerate(rseries) =>
        LET st == St(rseries)
            sr == Sr(rseries)
        IN  /\ rres.r.slope = ClosedSlope(rseries)
            /\ rres.r.intercept = ClosedIntercept(rseries)
            /\ rres.r.stdError = FSqrt(FDiv(sr, FSub(Num(Len(rseries)), Num(2))))
            /\ rres.r.correlation = FSqrt(FDiv(FSub(st, sr), st))

\* a series of 3 points with a non-zero intercept, where the sign of the
\* intercept in the fitted value shows in the result
C10_Witness ==
    /\ rres.called
    /\ Len(rseries) >= 3
    /\ ~Degenerate(rseries)
    /\ rres.r.intercept # Num(0)
    /\ rres.r.stdError.k = "sqrt"

(***************************************************************************)
(* The HTTP handlers.  net/http serves every request in a goroutine of its *)
(* own; a handler h is at position loc[h].pc of its code.                  *)
(***************************************************************************)
MAXLINES == 1000000
StatusOK == 200
StatusMethodNotAllowed == 405
StatusInternalServerError == 500

PointPath == "/point"
VizPath == "/goplot/viz"

\* a Go string holding no text, and the two texts the handlers write; a
\* text is modelled by the values it was formatted from
EmptyString == [text |-> "", doc |-> <<>>]
JsonText(dataSample) == [text |-> "json", doc |-> dataSample]
PointText(x, y) == [text |-> "point is", doc |-> <<x, y>>]

NoResponse == [status |-> 0, body |-> EmptyString, file |-> ""]

Locals ==
    [pc |-> "start", invoked |-> FALSE, src |-> <<>>, srcLines |-> <<>>,
     ix |-> 0, series |-> <<>>, reg |-> <<>>, err |-> "nil",
     results |-> EmptyString, t |-> Num(0)]

\* json.Marshal of a DataSample: an error for a float64 that is NaN or
\* infinite, the JSON text otherwise
Marshal(dataSample) ==
    LET r == dataSample.RegressionLine
        floats == {r.Slope, r.Intercept, r.StdError, r.Correlation}
                      \cup {dataSample.Series[i].X : i \in 1..Len(dataSample.Series)}
                      \cup {dataSample.Series[i].Y : i \in 1..Len(dataSample.Series)}
    IN  IF \A f \in floats : IsFinite(f)
        THEN [text |-> JsonText(dataSample), err |-> "nil"]
        ELSE [text |-> EmptyString, err |-> "json: unsupported value"]

DataSample(series, reg) ==
    [Series |-> series,
     RegressionLine |-> [Slope |-> reg.slope, Intercept |-> reg.intercept,
                         StdError |-> reg.stdError, Correlation |-> reg.correlation]]

\* the ingest loop of dataSampleProcess from line ix on
RECURSIVE IngestLoop(_, _, _)
IngestLoop(srcLines, ix, series) ==
    IF ix > Len(srcLines) THEN series
    ELSE IngestLoop(srcLines, ix + 1,
                    IF parseLine(srcLines[ix]).err = "nil"
                    THEN Append(series, parseLine(srcLines[ix]).p)
                    ELSE series)

\* dataSampleProcess run from its first line to its return
dataSampleProcess(src) ==
    LET series == IngestLoop(SplitN(src, "\n", MAXLINES), 1, <<>>)
    IN  Marshal(DataSample(series, linearRegression(series))).text

\* every handler's slice extended, as if series were one shared slice
AppendShared(l, h, p) ==
    [g \in DOMAIN l |-> [l[g] EXCEPT !.series = Append(@, p)]]

\* series = append(series, stmp) on the slice local to handler h
AppendSeries(l, h, p) == [l EXCEPT ![h].series = Append(@, p)]

\* every method but GET taken as a POST
CaseNoDefault(method) == IF method = "GET" THEN "GET" ELSE "POST"

\* the case of switch req.Method that is taken
Case(method) == IF method \in {"GET", "POST"} THEN method ELSE "default"

At(h, path, pc) == req[h].path = path /\ loc[h].pc = pc
Goto(h, pc) == loc' = [loc EXCEPT ![h].pc = pc]
Idle == UNCHANGED <<coords, pres, rseries, rres, req>>

(* Point.ServeHTTP *)
PointSwitch(h) ==
    /\ At(h, PointPath, "start")
    /\ Goto(h, CASE Case(req[h].method) = "GET" -> "incr"
                 [] Case(req[h].method) = "POST" -> "setx"
                 [] OTHER -> "print")
    /\ UNCHANGED <<resp, demoPoint, stdout>> /\ Idle

\* pt.X++ is a load and a store with no lock around them
PointIncrLoad(h) ==
    /\ At(h, PointPath, "incr")
    /\ loc' = [loc EXCEPT ![h].pc = "store", ![h].t = demoPoint.X]
    /\ UNCHANGED <<resp, demoPoint, stdout>> /\ Idle

PointIncrStore(h) ==
    /\ At(h, PointPath, "store")
    /\ demoPoint' = [demoPoint EXCEPT !.X = FAdd(loc[h].t, Num(1))]
    /\ Goto(h, "print")
    /\ UNCHANGED <<resp, stdout>> /\ Idle

PointSetX(h) ==
    /\ At(h, PointPath, "setx")
    /\ demoPoint' = [demoPoint EXCEPT !.X = ParseFloat(req[h].form.x).v]
    /\ Goto(h, "sety")
    /\ UNCHANGED <<resp, stdout>> /\ Idle

PointSetY(h) ==
    /\ At(h, PointPath, "sety")
    /\ demoPoint' = [demoPoint EXCEPT !.Y = ParseFloat(req[h].form.y).v]
    /\ Goto(h, "print")
    /\ UNCHANGED <<resp, stdout>> /\ Idle

\* the arguments of Fprintf are loaded one after the other
PointPrintLoad(h) ==
    /\ At(h, PointPath, "print")
    /\ loc' = [loc EXCEPT ![h].pc = "printy", ![h].t = demoPoint.X]
    /\ UNCHANGED <<resp, demoPoint, stdout>> /\ Idle

PointPrint(h) ==
    /\ At(h, PointPath, "printy")
    /\ resp' = [resp EXCEPT ![h] = [status |-> StatusOK,
                                    body |-> PointText(loc[h].t, demoPoint.Y),
                                    file |-> ""]]
    /\ Goto(h, "done")
    /\ UNCHANGED <<demoPoint, stdout>> /\ Idle

(* dataSampleServer *)
ServeGet(h) ==
    /\ At(h, VizPath, "start")
    /\ Case(req[h].method) = "GET"
    /\ \E getwdOk \in BOOLEAN :
           resp' = [resp EXCEPT ![h] =
                       IF getwdOk
                       THEN [status |-> StatusOK, body |-> EmptyString,
                             file |-> "client/viz.html"]
                       ELSE [status |-> StatusInternalServerError,
                             body |-> EmptyString, file |-> ""]]
    /\ Goto(h, "done")
    /\ UNCHANGED <<demoPoint, stdout>> /\ Idle

ServeDefault(h) ==
    /\ At(h, VizPath, "start")
    /\ Case(req[h].method) = "default"
    /\ resp' = [resp EXCEPT ![h] = [status |-> StatusMethodNotAllowed,
                                    body |-> EmptyString, file |-> ""]]
    /\ Goto(h, "done")
    /\ UNCHANGED <<demoPoint, stdout>> /\ Idle

\* case "POST": dataSampleProcess is entered with the form value and
\* splits it into lines
ProcessSplit(h) ==
    /\ At(h, VizPath, "start")
    /\ Case(req[h].method) = "POST"
    /\ loc' = [loc EXCEPT ![h].pc = "loop",
                          ![h].invoked = TRUE,
                          ![h].src = req[h].form.dataseries,
                          ![h].srcLines = SplitN(req[h].form.dataseries, "\n", MAXLINES),
                          ![h].ix = 0,
                          ![h].series = <<>>]
    /\ UNCHANGED <<resp, demoPoint, stdout>> /\ Idle

\* one turn of the loop over the lines (ix counts from 0 as in the code)
ProcessLine(h) ==
    /\ At(h, VizPath, "loop")
    /\ loc[h].ix < Len(loc[h].srcLines)
    /\ LET stmp == parseLine(loc[h].srcLines[loc[h].ix + 1])
           l    == [loc EXCEPT ![h].ix = @ + 1]
       IN  loc' = IF stmp.err = "nil" THEN AppendSeries(l, h, stmp.p) ELSE l
    /\ UNCHANGED <<resp, demoPoint, stdout>> /\ Idle

ProcessRegress(h) ==
    /\ At(h, VizPath, "loop")
    /\ loc[h].ix >= Len(loc[h].srcLines)
    /\ loc' = [loc EXCEPT ![h].pc = "marshal",
                          ![h].reg = linearRegression(loc[h].series)]
    /\ UNCHANGED <<resp, demoPoint, stdout>> /\ Idle

\* json.Marshal; on an error the error is printed and the named result is
\* returned as it is, the empty string
ProcessMarshal(h) ==
    /\ At(h, VizPath, "marshal")
    /\ LET m == Marshal(DataSample(loc[h].series, loc[h].reg))
       IN  /\ loc' = [loc EXCEPT ![h].pc = "write",
                                 ![h].err = m.err,
                                 ![h].results = IF m.err = "nil" THEN m.text
                                                ELSE EmptyString]
           /\ stdout' = IF m.err = "nil" THEN stdout ELSE Append(stdout, m.err)
    /\ UNCHANGED <<resp, demoPoint>> /\ Idle

\* fmt.Fprint(c, result)
ServeWrite(h) ==
    /\ At(h, VizPath, "write")
    /\ resp' = [resp EXCEPT ![h] = [status |-> StatusOK,
                                    body |-> loc[h].results, file |-> ""]]
    /\ Goto(h, "done")
    /\ UNCHANGED <<demoPoint, stdout>> /\ Idle

Next ==
    \/ \E h \in DOMAIN req : PointSwitch(h)
    \/ \E h \in DOMAIN req : PointIncrLoad(h)
    \/ \E h \in DOMAIN req : PointIncrStore(h)
    \/ \E h \in DOMAIN req : PointSetX(h)
    \/ \E h \in DOMAIN req : PointSetY(h)
    \/ \E h \in DOMAIN req : PointPrintLoad(h)
    \/ \E h \in DOMAIN req : PointPrint(h)
    \/ \E h \in DOMAIN req : ServeGet(h)
    \/ \E h \in DOMAIN req : ServeDefault(h)
    \/ \E h \in DOMAIN req : ProcessSplit(h)
    \/ \E h \in DOMAIN req : ProcessLine(h)
    \/ \E h \in DOMAIN req : ProcessRegress(h)
    \/ \E h \in DOMAIN req : ProcessMarshal(h)
    \/ \E h \in DOMAIN req : ServeWrite(h)

NoForm == [dataseries |-> <<>>, x |-> <<>>, y |-> <<>>]

RECURSIVE Join(_)
Join(ls) == IF Len(ls) = 1 THEN ls[1] ELSE ls[1] \o <<"\n">> \o Join(Tail(ls))

SampleLines ==
    { <<"1", ",", "1">>, <<"2", ",", "2">>, <<"3", ",", "3">>,
      <<"b", "a", "d", " ", "l", "i", "n", "e">>, <<>>, <<"b", ",", "1">> }
Submissions == {Join(ls) : ls \in UNION {[1..n -> SampleLines] : n \in 1..MaxLines}}
NumberTexts == {<<"2">>, <<"b">>}

PointRequests ==
    {[path |-> PointPath, method |-> m, form |-> NoForm] : m \in {"GET", "PUT"}}
    \cup {[path |-> PointPath, method |-> "POST",
           form |-> [dataseries |-> <<>>, x |-> x, y |-> y]] : x, y \in NumberTexts}

VizRequests(subs) ==
    {[path |-> VizPath, method |-> m, form |-> NoForm] : m \in {"GET", "PUT"}}
    \cup {[path |-> VizPath, method |-> "POST",
           form |-> [dataseries |-> s, x |-> <<>>, y |-> <<>>]] : s \in subs}

InitServer(handlers, requests) ==
    /\ req \in [handlers -> requests]
    /\ loc = [h \in handlers |-> Locals]
    /\ resp = [h \in handlers |-> NoResponse]
    /\ demoPoint = ZeroPoint
    /\ stdout = <<>>
    /\ coords = <<>>
    /\ pres = NotCalled
    /\ rseries = <<>>
    /\ rres = NotCalled

(***************************************************************************)
(* Spec: one request, with every submission of at most MaxLines lines      *)
(* drawn from SampleLines.                                                 *)
(***************************************************************************)
Init == InitServer({1}, PointRequests \cup VizRequests(Submissions))

Spec == Init /\ [][Next]_vars

(***************************************************************************)
(* SpecConc: NReq requests served concurrently.                            *)
(***************************************************************************)
ConcSubmissions ==
    { Join(<<<<"1", ",", "1">>, <<"2", ",", "2">>, <<"3", ",", "3">>>>),
      Join(<<<<"b">>, <<"2", ",", "1">>>>) }

ConcRequests ==
    {[path |-> PointPath, method |-> "GET", form |-> NoForm],
     [path |-> PointPath, method |-> "PUT", form |-> NoForm],
     [path |-> PointPath, method |-> "POST",
      form |-> [dataseries |-> <<>>, x |-> <<"2">>, y |-> <<"1">>]]}
    \cup VizRequests(ConcSubmissions)

InitConc == InitServer(1..NReq, ConcRequests)

SpecConc == InitConc /\ [][Next]_vars

(***************************************************************************)
(* Properties of the handlers.                                             *)
(***************************************************************************)
VizPost(h) == req[h].path = VizPath /\ req[h].method = "POST"
Done(h) == loc[h].pc = "done"

\* a valid line: two comma-separated numeric fields
ValidLine(line) ==
    \E a, c, e, z \in 1..Len(line) : IsPairLine(line, a, c, e, z)

PairOf(line) ==
    LET q == CHOOSE q \in (1..Len(line)) \X (1..Len(line)) \X (1..Len(line)) \X (1..Len(line)) :
                 IsPairLine(line, q[1], q[2], q[3], q[4])
    IN  [X |-> NumeralValue(SubSeq(line, q[1], q[2] - 1)),
         Y |-> NumeralValue(SubSeq(line, q[2] + 1, q[3]))]

\* the pairs of the valid lines, in the order of the lines
RECURSIVE ValidPairs(_)
ValidPairs(lines) ==
    IF lines = <<>> THEN <<>>
    ELSE (IF ValidLine(lines[1]) THEN <<PairOf(lines[1])>> ELSE <<>>)
             \o ValidPairs(Tail(lines))

\* C1: the series built by the ingest loop holds exactly one pair per valid
\* line of the submission, in the order of the lines, and nothing for a
\* malformed line (empty, fewer than 2 fields, a non-numeric field).
C1_OnePairPerValidLine ==
    \A h \in DOMAIN req :
        VizPost(h) /\ loc[h].pc \in {"marshal", "write", "done"} =>
            loc[h].series = ValidPairs(SplitN(req[h].form.dataseries, "\n", MAXLINES))

\* C6: when json.Marshal fails in dataSampleProcess the caller is told so
\* and sends no normal success response.
C6_EncodingErrorReported ==
    \A h \in DOMAIN req :
        VizPost(h) /\ Done(h) /\ loc[h].err # "nil" =>
            resp[h].status # StatusOK

\* C7: dataSampleServer invokes dataSampleProcess only for a POST, with the
\* form value dataseries, and writes its result unchanged; a GET is answered
\* with the static page or status 500 and any other method with status 405,
\* neither invoking dataSampleProcess.
C7_OnlyPostReachesPipeline ==
    \A h \in DOMAIN req :
        req[h].path = VizPath =>
            /\ loc[h].invoked =>
                   req[h].method = "POST" /\ loc[h].src = req[h].form.dataseries
            /\ Done(h) /\ req[h].method = "POST" =>
                   /\ loc[h].invoked
                   /\ resp[h] = [status |-> StatusOK, body |-> loc[h].results, file |-> ""]
                   /\ resp[h].body = dataSampleProcess(req[h].form.dataseries)
            /\ Done(h) /\ req[h].method = "GET" =>
                   /\ ~loc[h].invoked
                   /\ resp[h].body = EmptyString
                   /\ \/ resp[h].status = StatusOK /\ resp[h].file = "client/viz.html"
                      \/ resp[h].status = StatusInternalServerError /\ resp[h].file = ""
            /\ Done(h) /\ req[h].method \notin {"GET", "POST"} =>
                   /\ ~loc[h].invoked
                   /\ resp[h] = [status |-> StatusMethodNotAllowed,
                                 body |-> EmptyString, file |-> ""]

\* a POST answered with the JSON text of its submission
C7_Witness ==
    \E h \in DOMAIN req :
        /\ VizPost(h) /\ Done(h)
        /\ req[h].form.dataseries = Join(<<<<"1", ",", "1">>, <<"2", ",", "2">>, <<"3", ",", "3">>>>)
        /\ resp[h].body.text = "json"

PointGets == {h \in DOMAIN req : req[h].path = PointPath /\ req[h].method = "GET"}
PointPosts == {h \in DOMAIN req : req[h].path = PointPath /\ req[h].method = "POST"}

\* handler h is between the two halves of an access to the Point: the load
\* and the store of the increment, the two writes of a POST, or the two
\* loads of the response
MidPoint(h) == req[h].path = PointPath /\ loc[h].pc \in {"store", "sety", "printy"}

\* C8: the updates of the demo Point are serialized: k concurrent GETs with
\* no POST leave x at its initial value plus k, and the x and y writes of a
\* POST are not interleaved with the update or the response of another
\* request.
C8_PointSerialized ==
    /\ (PointPosts = {} /\ \A h \in DOMAIN req : Done(h))
           => demoPoint.X = Num(Cardinality(PointGets))
    /\ \A h \in PointPosts : \A g \in DOMAIN req :
           loc[h].pc = "sety" /\ g # h => ~MidPoint(g)

====
